---- MODULE Spec2Model ----
(***************************************************************************)
(* Model of mempool-server: the ordered mempool store (src/src/mempool.rs), *)
(* the bulk load and the mp_filler updater thread (src/src/main.rs), and    *)
(* the /txsdata and /txsdatafrom byte streams (src/src/main.rs).            *)
(***************************************************************************)
EXTENDS Integers, Sequences, FiniteSets, TLC

VARIABLES
    mempool,        \* the Mempool struct: counter, id_tx_map, txid_id_map
    main_pc,        \* main_app: "loading" (listener started), "loaded", "serving"
    vec,            \* the Vec<TxDepth> that get_tx_dept_vec returned, until the launch
    lst,            \* the sequence listener: "init" (SeqStart not sent yet) / "running"
    chan,           \* the mpsc channel zmqseqlistener.rx, oldest event first
    upd,            \* the mp_filler thread: position, pending store calls, locals
    mp_filler_stop, \* the AtomicBool stop flag of the mp_filler thread
    sigint,         \* SIGINT was sent to the own process
    st,             \* one HTTP byte stream: position, iterator, emitted chunks
    lastEvent,      \* history: the event the updater received last
    assigned,       \* history: the values returned by counter.fetch_add, in order
    obs,            \* history: what the store held while the stream ran
    thr,            \* API-level threads calling add_tx / remove_tx concurrently
    hist,           \* history: per API thread, the Seqs its add_tx calls received
    zmqseqlistener_stop, \* the AtomicBool stop flag of the listener thread
    sent,           \* history: the logged events, in the order the listener sent them
    recv,           \* history: the logged events the updater received, in order
    pre,            \* history: the store when the last logged event was received
    loaded          \* history: the store as load_mempool_with left it

vars == <<mempool, main_pc, vec, lst, chan, upd, mp_filler_stop, sigint, st,
          lastEvent, assigned, obs, thr, hist, zmqseqlistener_stop, sent, recv,
          pre, loaded>>

progVars == <<main_pc, vec, lst, chan, upd, mp_filler_stop, sigint, st, lastEvent, obs>>
apiVars == <<thr, hist>>
lifeVars == <<zmqseqlistener_stop>>
evVars == <<sent, recv, pre, loaded>>
otherVars == <<apiVars, lifeVars, evVars>>

----------------------------------------------------------------------------
(* Bounds *)

NumTx == 2          \* transaction ids are 1..NumTx
MaxAnc == 2         \* ancestor counts reported by the node are 1..MaxAnc
MaxCounter == 3     \* add_tx is not called once the counter reached this value
MaxChan == 1        \* events buffered in the channel
MaxFrom == 1        \* the <from> of a /txsdatafrom request is 0..MaxFrom
MaxEvents == 3      \* events the listener sends when its events are logged
MaxBuffered == 2    \* logged events buffered in the channel

TxIds == 1..NumTx
\* The two threads of the API-level specification
Threads == {1, 2}
Seqs == 0..MaxCounter

\* The serialized transaction the node returns for a txid (hex::decode of
\* getrawtransaction): determined by the txid, of different lengths.
BytesOf(t) == [i \in 1..t |-> 16 * t + i]

----------------------------------------------------------------------------
(* The concurrent maps *)

\* DashMap::insert / SkipMap::insert: the previous mapping of the key is replaced.
MapInsert(m, k, v) == [x \in (DOMAIN m) \cup {k} |-> IF x = k THEN v ELSE m[x]]

\* DashMap::remove / SkipMap::remove: an absent key leaves the map as it is.
MapRemove(m, k) == [x \in (DOMAIN m) \ {k} |-> m[x]]

EmptyMap == << >>

----------------------------------------------------------------------------
(* Mempool (src/src/mempool.rs) *)

new == [counter |-> 0, id_tx_map |-> EmptyMap, txid_id_map |-> EmptyMap]

\* Mutants of fetch_add: the increment is lost; the counter is bumped twice.
fetch_add_lost(mp) == mp

fetch_add_twice(mp) == [mp EXCEPT !.counter = @ + 2]

\* self.counter.fetch_add(1, SeqCst): the store after it; the value returned is
\* the counter before it.
fetch_add(mp) == [mp EXCEPT !.counter = @ + 1]

\* self.txid_id_map.insert(tx_id, previous_value)
add_tx_m1(mp, tx_id, previous_value) ==
    [mp EXCEPT !.txid_id_map = MapInsert(@, tx_id, previous_value)]

\* self.id_tx_map.insert(previous_value, bytes)
add_tx_m2(mp, previous_value, bytes) ==
    [mp EXCEPT !.id_tx_map = MapInsert(@, previous_value, bytes)]

add_tx(mp, tx_id, bytes) ==
    LET previous_value == mp.counter
    IN  add_tx_m2(add_tx_m1(fetch_add(mp), tx_id, previous_value), previous_value, bytes)

\* let kk = self.txid_id_map.remove(tx_id)
remove_tx_m1(mp, tx_id) == [mp EXCEPT !.txid_id_map = MapRemove(@, tx_id)]

\* Mutant of remove_tx_m2: the vacated Seq is handed out again.
remove_tx_m2_reuse(mp, id) ==
    [mp EXCEPT !.id_tx_map = MapRemove(@, id), !.counter = id]

\* Some((_, id)) => self.id_tx_map.remove(&id)
remove_tx_m2(mp, id) == [mp EXCEPT !.id_tx_map = MapRemove(@, id)]

\* Mutant of remove_tx: an absent txid is taken to have Seq 0.
remove_tx_default(mp, tx_id) ==
    remove_tx_m2(remove_tx_m1(mp, tx_id),
                 IF tx_id \in DOMAIN mp.txid_id_map THEN mp.txid_id_map[tx_id] ELSE 0)

remove_tx(mp, tx_id) ==
    IF tx_id \in DOMAIN mp.txid_id_map
    THEN remove_tx_m2(remove_tx_m1(mp, tx_id), mp.txid_id_map[tx_id])
    ELSE remove_tx_m1(mp, tx_id)

len(mp) == Cardinality(DOMAIN mp.txid_id_map)

counter(mp) == mp.counter

\* for each tx_depth in each layer, in order: self.add_tx(tx_id, bytes)
RECURSIVE load_layer(_, _)
load_layer(mp, layer) ==
    IF layer = << >> THEN mp
    ELSE load_layer(add_tx(mp, Head(layer).tx_id, Head(layer).bytes), Tail(layer))

RECURSIVE load_mempool_with(_, _)
load_mempool_with(mp, vec2) ==
    IF vec2 = << >> THEN mp
    ELSE load_mempool_with(load_layer(mp, Head(vec2)), Tail(vec2))

\* SkipMap iterator: the entry after `last` (-1: none yielded yet) that is not
\* below `from`; crossbeam's next() searches the live list for the successor of
\* the key it holds, so it is the smallest such key present when it is called.
\* Mutant of IterKeys: the lower bound of the range is ignored.
IterKeys_unbounded(m, from, last) == {k \in DOMAIN m : k > last}

IterKeys(m, from, last) == {k \in DOMAIN m : k >= from /\ k > last}

Min(S) == CHOOSE x \in S : \A y \in S : x <= y

\* Mutant of iter_next: the search runs to the wrong end of the range.
Max(S) == CHOOSE x \in S : \A y \in S : x >= y

iter_next_last(m, from, last) == Max(IterKeys(m, from, last))

iter_next(m, from, last) == Min(IterKeys(m, from, last))

\* The whole sequence of values an iterator yields on a store nobody changes.
RECURSIVE Drain(_, _, _)
Drain(m, from, last) ==
    IF IterKeys(m, from, last) = {} THEN << >>
    ELSE LET k == iter_next(m, from, last) IN <<m[k]>> \o Drain(m, from, k)

pos_data_iterator_from(mp, from) == Drain(mp.id_tx_map, from, -1)

pos_data_iterator(mp) == Drain(mp.id_tx_map, 0, -1)

----------------------------------------------------------------------------
(* Bulk load (src/src/main.rs) *)

\* while vec2.len() <= ancestor_index { vec2.push(vec![]) }
RECURSIVE PushLayers(_, _)
PushLayers(vec2, ancestor_index) ==
    IF Len(vec2) <= ancestor_index THEN PushLayers(Append(vec2, << >>), ancestor_index)
    ELSE vec2

\* Mutant of layer_index: every record lands in the first layer.
layer_index_flat(tx_depth) == 0

layer_index(tx_depth) == tx_depth.ancestor_count - 1

RECURSIVE LayersFold(_, _)
LayersFold(v, vec2) ==
    IF v = << >> THEN vec2
    ELSE LET tx_depth == Head(v)
             ancestor_index == layer_index(tx_depth)
             grown == PushLayers(vec2, ancestor_index)
         IN  LayersFold(Tail(v),
                 [grown EXCEPT ![ancestor_index + 1] = Append(@, tx_depth)])

get_mempool_layers(v) == LayersFold(v, << >>)

\* get_tx_dept_vec: one record per txid of getrawmempool for which the raw
\* transaction was found, in any order; the node's ancestor counts are >= 1.
DistinctSeqs(S) ==
    UNION {{q \in [1..n -> S] : \A i, j \in 1..n : i # j => q[i] # q[j]} :
           n \in 0..Cardinality(S)}

TxDepth(t, a) == [ancestor_count |-> a, tx_id |-> t, bytes |-> BytesOf(t)]

TxDeptVecs ==
    {[i \in 1..Len(q) |-> TxDepth(q[i], anc[q[i]])] :
        q \in DistinctSeqs(TxIds), anc \in [TxIds -> 1..MaxAnc]}

----------------------------------------------------------------------------
(* Wire encoding (src/src/main.rs, the to_be_bytes calls) *)

\* n.to_be_bytes() of a w-byte unsigned integer
RECURSIVE to_be_bytes(_, _)
to_be_bytes(n, w) ==
    IF w = 0 THEN << >> ELSE Append(to_be_bytes(n \div 256, w - 1), n % 256)

\* u64::MAX.to_be_bytes()
Magic == [i \in 1..8 |-> 255]

\* The unsigned integer whose big-endian bytes are b[1..n]
RECURSIVE BigEndian(_, _)
BigEndian(b, n) == IF n = 0 THEN 0 ELSE 256 * BigEndian(b, n - 1) + b[n]

from_be_bytes(b) == BigEndian(b, Len(b))

RECURSIVE Flatten(_)
Flatten(chunks) ==
    IF chunks = << >> THEN << >> ELSE Head(chunks) \o Flatten(Tail(chunks))

----------------------------------------------------------------------------
(* Events of the sequence listener (MempoolSequence) *)

Event(type, txs, ok) == [type |-> type, txs |-> txs, ok |-> ok]

\* get_block_info(block_hash).tx: a block holds each transaction once
BlockTxs == DistinctSeqs(TxIds) \ {<< >>}

SeqStartEvents == {Event("SeqStart", << >>, b) : b \in BOOLEAN}

TxEvents == {Event(ty, <<t>>, TRUE) : ty \in {"TxAdded", "TxRemoved"}, t \in TxIds}

LaterEvents ==
    {Event("SeqError", << >>, FALSE)}
    \cup TxEvents
    \cup {Event(ty, q, TRUE) : ty \in {"BlockConnection", "BlockDisconnection"},
                               q \in BlockTxs}

NoEvent == Event("none", << >>, TRUE)

Range(f) == {f[x] : x \in DOMAIN f}

RECURSIVE Jobs(_, _, _)
Jobs(op, txs, found) ==
    IF txs = << >> THEN << >>
    ELSE (IF Head(txs) \in found THEN <<[op |-> op, tx_id |-> Head(txs)]>> ELSE << >>)
         \o Jobs(op, Tail(txs), found)

----------------------------------------------------------------------------
(* Initial state: main_app has started the listener, the store is not loaded *)

NoStream ==
    [pc |-> "none", kind |-> "none", from |-> 0, last |-> -1, first |-> TRUE,
     data |-> << >>, body |-> << >>, keys |-> << >>]

NoObs ==
    [startM2 |-> EmptyMap, startLen |-> 0, startCounter |-> 0,
     removed |-> {}, held |-> {}, heldAt |-> {}]

IdleThread == [pc |-> "idle", tx_id |-> 0, id |-> 0]

Init ==
    /\ mempool = new
    /\ main_pc = "loading"
    /\ vec = << >>
    /\ lst = "init"
    /\ chan = << >>
    /\ upd = [pc |-> "run", job |-> << >>, tx_id |-> 0, id |-> 0,
              stopping |-> FALSE, disconnected |-> FALSE]
    /\ mp_filler_stop = FALSE
    /\ sigint = FALSE
    /\ st = NoStream
    /\ lastEvent = NoEvent
    /\ assigned = << >>
    /\ obs = NoObs
    /\ thr = [th \in Threads |-> IdleThread]
    /\ hist = [th \in Threads |-> << >>]
    /\ zmqseqlistener_stop = FALSE
    /\ sent = << >>
    /\ recv = << >>
    /\ pre = new
    /\ loaded = new

\* The entries (Seq, bytes) of a seq->bytes map
Entries(m) == {<<k, m[k]>> : k \in DOMAIN m}

\* History of the stream: what the seq->bytes map held since the stream started
\* and which Seqs left it, after the store changed from mempool to mp.
StreamActive == st.pc \notin {"none", "done"}

ObsAfter(mp) ==
    IF StreamActive
    THEN [obs EXCEPT !.held = @ \cup Range(mp.id_tx_map),
                     !.heldAt = @ \cup Entries(mp.id_tx_map),
                     !.removed = @ \cup ((DOMAIN mempool.id_tx_map) \ (DOMAIN mp.id_tx_map))]
    ELSE obs

\* The values fetch_add returned to the add_tx calls of a load, in call order:
\* each call gets the counter as it was before the call.
RECURSIVE LoadSeqs(_, _)
LoadSeqs(mp, txs) ==
    IF txs = << >> THEN << >>
    ELSE <<mp.counter>> \o LoadSeqs(add_tx(mp, Head(txs).tx_id, Head(txs).bytes), Tail(txs))

----------------------------------------------------------------------------
(* main_app: get_tx_dept_vec, get_mempool_layers, load_mempool_with; then the
   mp_filler thread is spawned and the REST server launched *)

\* log: whether the history keeps the store the load leaves
MainAppLog(log) ==
    /\ main_pc = "loading"
    /\ \E v \in TxDeptVecs :
        /\ vec' = v
        /\ mempool' = load_mempool_with(mempool, get_mempool_layers(v))
        /\ assigned' = assigned \o LoadSeqs(mempool, Flatten(get_mempool_layers(v)))
    /\ main_pc' = "loaded"
    /\ loaded' = IF log THEN mempool' ELSE loaded
    /\ UNCHANGED <<lst, chan, upd, mp_filler_stop, sigint, st, lastEvent, obs>>
    /\ UNCHANGED <<apiVars, lifeVars, sent, recv, pre>>

MainApp == MainAppLog(FALSE)

MainAppLogged == MainAppLog(TRUE)

\* launch_mp_filler_thread(..); Ok(App {..}); rocket::build()...launch()
\* (the fetched records were moved into the load and are gone)
LaunchFiller ==
    /\ main_pc = "loaded"
    /\ main_pc' = "serving"
    /\ vec' = << >>
    /\ UNCHANGED <<mempool, lst, chan, upd, mp_filler_stop, sigint, st, lastEvent,
                   assigned, obs>>
    /\ UNCHANGED otherVars

\* The mp_filler thread was spawned and the process has not ended: main is
\* in rocket's launch() or in the shutdown steps that follow it.
Launched ==
    main_pc \in {"serving", "launch_returned", "join_listener", "stop_filler",
                 "join_filler"}

\* The Sender of the channel lives in the listener thread, the Receiver in the
\* mp_filler thread: each is dropped when its thread ends.
SenderAlive == lst \in {"init", "running"}

ReceiverAlive == upd.pc \notin {"panicked", "exited"}

----------------------------------------------------------------------------
(* The sequence listener thread: SeqStart first, then the node's events *)

ListenerStart ==
    /\ lst = "init"
    /\ ReceiverAlive
    /\ Len(chan) < MaxChan
    /\ \E e \in SeqStartEvents : chan' = Append(chan, e)
    /\ lst' = "running"
    /\ UNCHANGED <<mempool, main_pc, vec, upd, mp_filler_stop, sigint, st, lastEvent,
                   assigned, obs>>
    /\ UNCHANGED otherVars

SendFrom(events) ==
    /\ lst = "running"
    /\ ReceiverAlive
    /\ Len(chan) < MaxChan
    /\ \E e \in events : chan' = Append(chan, e)
    /\ UNCHANGED <<mempool, main_pc, vec, lst, upd, mp_filler_stop, sigint, st,
                   lastEvent, assigned, obs>>
    /\ UNCHANGED otherVars

ListenerSend == SendFrom(LaterEvents)

\* The events of single transactions only
ListenerSendTx == SendFrom(TxEvents)

\* The listener's sends with the history of what it sent kept (the channel is
\* mpsc::channel(): its buffer has no bound of its own)
ListenerSendLogged ==
    /\ lst = "running"
    /\ ReceiverAlive
    /\ Len(chan) < MaxBuffered
    /\ Len(sent) < MaxEvents
    /\ \E e \in LaterEvents :
        /\ chan' = Append(chan, e)
        /\ sent' = Append(sent, e)
    /\ UNCHANGED <<mempool, main_pc, vec, lst, upd, mp_filler_stop, sigint, st,
                   lastEvent, assigned, obs>>
    /\ UNCHANGED <<apiVars, lifeVars, recv, pre, loaded>>

----------------------------------------------------------------------------
(* The mp_filler thread: launch_mp_filler_thread and update_mempool *)

\* Mutant of UpdCanRecv: the thread runs before the bulk load has finished.
UpdCanRecv_early ==
    /\ upd.pc = "run"
    /\ upd.job = << >>
    /\ ~mp_filler_stop
    /\ chan # << >>

\* while !stop { match rx.recv_timeout(..) { Ok(mps) => update_mempool(..).unwrap()
UpdCanRecv ==
    /\ Launched
    /\ upd.pc = "run"
    /\ upd.job = << >>
    /\ ~mp_filler_stop
    /\ chan # << >>

\* What every arm of update_mempool does on receipt of Head(chan): the event is
\* taken, the store calls it makes are queued, or the thread panics on Err.
Received(job, found, rpc_ok, fatal) ==
    /\ chan' = Tail(chan)
    /\ lastEvent' = Head(chan)
    /\ upd' = [upd EXCEPT !.job = IF fatal THEN << >> ELSE job,
                          !.pc = IF fatal THEN "panicked" ELSE "run"]
    /\ IF sent # << >> /\ Head(chan).type # "SeqStart"
       THEN /\ recv' = Append(recv, [e |-> Head(chan), found |-> found, fatal |-> fatal])
            /\ pre' = mempool
       ELSE UNCHANGED <<recv, pre>>
    /\ UNCHANGED <<mempool, main_pc, vec, lst, mp_filler_stop, sigint, st, assigned, obs>>
    /\ UNCHANGED <<apiVars, lifeVars, sent, loaded>>

\* SeqStart { bitcoind_already_working }: Err when it is false
UpdSeqStart ==
    /\ UpdCanRecv
    /\ Head(chan).type = "SeqStart"
    /\ Received(<< >>, {}, TRUE, ~Head(chan).ok)

\* SeqError { error } => Err
UpdSeqError ==
    /\ UpdCanRecv
    /\ Head(chan).type = "SeqError"
    /\ Received(<< >>, {}, TRUE, TRUE)

\* Mutant of UpdTxAdded: add_tx is called whatever the fetch returned.
UpdTxAdded_always ==
    /\ UpdCanRecv
    /\ Head(chan).type = "TxAdded"
    /\ mempool.counter + 1 <= MaxCounter
    /\ \E found \in SUBSET Range(Head(chan).txs) :
        Received(Jobs("add", Head(chan).txs, TxIds), found, TRUE, FALSE)

\* TxAdded: add_tx when get_raw_transaction_hex finds the transaction
UpdTxAdded ==
    /\ UpdCanRecv
    /\ Head(chan).type = "TxAdded"
    /\ mempool.counter + 1 <= MaxCounter
    /\ \E found \in SUBSET Range(Head(chan).txs) :
        Received(Jobs("add", Head(chan).txs, found), found, TRUE, FALSE)

\* TxRemoved: remove_tx
UpdTxRemoved ==
    /\ UpdCanRecv
    /\ Head(chan).type = "TxRemoved"
    /\ Received(Jobs("rem", Head(chan).txs, TxIds), {}, TRUE, FALSE)

\* Mutant of UpdBlockConnection: only the first transaction of the block is
\* removed.
UpdBlockConnection_head ==
    /\ UpdCanRecv
    /\ Head(chan).type = "BlockConnection"
    /\ \E rpc_ok \in BOOLEAN :
        Received(Jobs("rem", <<Head(Head(chan).txs)>>, TxIds), {}, rpc_ok, ~rpc_ok)

\* BlockConnection: get_block_info(..)? then remove_tx for each tx of the block
UpdBlockConnection ==
    /\ UpdCanRecv
    /\ Head(chan).type = "BlockConnection"
    /\ \E rpc_ok \in BOOLEAN :
        Received(Jobs("rem", Head(chan).txs, TxIds), {}, rpc_ok, ~rpc_ok)

\* Mutant of UpdBlockDisconnection: the transactions not found are added too.
UpdBlockDisconnection_all ==
    /\ UpdCanRecv
    /\ Head(chan).type = "BlockDisconnection"
    /\ mempool.counter + Len(Head(chan).txs) <= MaxCounter
    /\ \E rpc_ok \in BOOLEAN, found \in SUBSET Range(Head(chan).txs) :
        Received(Jobs("add", Head(chan).txs, TxIds), found, rpc_ok, ~rpc_ok)

\* BlockDisconnection: get_block_info(..)? then add_tx for each tx of the block
\* that get_raw_transaction_hex finds
UpdBlockDisconnection ==
    /\ UpdCanRecv
    /\ Head(chan).type = "BlockDisconnection"
    /\ mempool.counter + Len(Head(chan).txs) <= MaxCounter
    /\ \E rpc_ok \in BOOLEAN, found \in SUBSET Range(Head(chan).txs) :
        Received(Jobs("add", Head(chan).txs, found), found, rpc_ok, ~rpc_ok)

UpdWorking == Launched /\ upd.pc = "run" /\ upd.job # << >>

\* add_tx, first statement: let previous_value = self.counter.fetch_add(1, SeqCst)
UpdAddTx ==
    /\ UpdWorking
    /\ Head(upd.job).op = "add"
    /\ mempool' = fetch_add(mempool)
    /\ assigned' = Append(assigned, mempool.counter)
    /\ upd' = [upd EXCEPT !.pc = "add_m1", !.tx_id = Head(upd.job).tx_id,
                          !.id = mempool.counter]
    /\ UNCHANGED <<main_pc, vec, lst, chan, mp_filler_stop, sigint, st, lastEvent, obs>>
    /\ UNCHANGED otherVars

\* add_tx, second statement: self.txid_id_map.insert(tx_id, previous_value)
UpdAddM1 ==
    /\ upd.pc = "add_m1"
    /\ mempool' = add_tx_m1(mempool, upd.tx_id, upd.id)
    /\ upd' = [upd EXCEPT !.pc = "add_m2"]
    /\ UNCHANGED <<main_pc, vec, lst, chan, mp_filler_stop, sigint, st, lastEvent,
                   assigned, obs>>
    /\ UNCHANGED otherVars

\* add_tx, third statement: self.id_tx_map.insert(previous_value, bytes)
UpdAddM2 ==
    /\ upd.pc = "add_m2"
    /\ mempool' = add_tx_m2(mempool, upd.id, BytesOf(upd.tx_id))
    /\ obs' = ObsAfter(mempool')
    /\ upd' = [upd EXCEPT !.pc = "run", !.job = Tail(@)]
    /\ UNCHANGED <<main_pc, vec, lst, chan, mp_filler_stop, sigint, st, lastEvent, assigned>>
    /\ UNCHANGED otherVars

\* remove_tx, first statement: let kk = self.txid_id_map.remove(tx_id); None => {}
UpdRemoveTx ==
    /\ UpdWorking
    /\ Head(upd.job).op = "rem"
    /\ LET tx_id == Head(upd.job).tx_id
           some == tx_id \in DOMAIN mempool.txid_id_map
       IN  /\ mempool' = remove_tx_m1(mempool, tx_id)
           /\ upd' = IF some
                     THEN [upd EXCEPT !.pc = "rem_m2", !.tx_id = tx_id,
                                      !.id = mempool.txid_id_map[tx_id]]
                     ELSE [upd EXCEPT !.job = Tail(@)]
    /\ UNCHANGED <<main_pc, vec, lst, chan, mp_filler_stop, sigint, st, lastEvent,
                   assigned, obs>>
    /\ UNCHANGED otherVars

\* remove_tx, Some((_, id)) => self.id_tx_map.remove(&id)
UpdRemM2 ==
    /\ upd.pc = "rem_m2"
    /\ mempool' = remove_tx_m2(mempool, upd.id)
    /\ obs' = ObsAfter(mempool')
    /\ upd' = [upd EXCEPT !.pc = "run", !.job = Tail(@)]
    /\ UNCHANGED <<main_pc, vec, lst, chan, mp_filler_stop, sigint, st, lastEvent, assigned>>
    /\ UNCHANGED otherVars

\* Err(RecvTimeoutError::Timeout): stopping = true; stop_th2.store(true);
\* kill(getpid(), SIGINT). recv_timeout times out only while a Sender exists.
UpdTimeout ==
    /\ Launched
    /\ upd.pc = "run"
    /\ upd.job = << >>
    /\ ~mp_filler_stop
    /\ chan = << >>
    /\ SenderAlive
    /\ upd' = [upd EXCEPT !.stopping = TRUE]
    /\ mp_filler_stop' = TRUE
    /\ sigint' = TRUE
    /\ UNCHANGED <<mempool, main_pc, vec, lst, chan, st, lastEvent, assigned, obs>>
    /\ UNCHANGED otherVars

\* while !stop_th2.load(SeqCst): the loop ends once the flag is set
UpdExit ==
    /\ Launched
    /\ upd.pc = "run"
    /\ upd.job = << >>
    /\ mp_filler_stop
    /\ upd' = [upd EXCEPT !.pc = "exited"]
    /\ UNCHANGED <<mempool, main_pc, vec, lst, chan, mp_filler_stop, sigint, st,
                   lastEvent, assigned, obs>>
    /\ UNCHANGED otherVars

\* log_mempool_size(&bcc, Level::Debug).unwrap(), called once update_mempool
\* returned Ok: get_mempool_info succeeds (nothing changes) or fails, and the
\* thread panics. The call touches nothing else, so its failure is a step of
\* its own at any moment before the thread receives again.
UpdLogMempoolSize ==
    /\ Launched
    /\ upd.pc = "run"
    /\ upd.job = << >>
    /\ lastEvent # NoEvent
    /\ ~upd.stopping
    /\ ~upd.disconnected
    /\ upd' = [upd EXCEPT !.pc = "panicked"]
    /\ UNCHANGED <<mempool, main_pc, vec, lst, chan, mp_filler_stop, sigint, st,
                   lastEvent, assigned, obs>>
    /\ UNCHANGED otherVars

\* Err(_) (RecvTimeoutError::Disconnected: the channel is empty and its Sender
\* was dropped): if !stopping { error!(..) }, and the loop goes on.
UpdDisconnected ==
    /\ Launched
    /\ upd.pc = "run"
    /\ upd.job = << >>
    /\ ~mp_filler_stop
    /\ chan = << >>
    /\ ~SenderAlive
    /\ ~upd.disconnected
    /\ upd' = [upd EXCEPT !.disconnected = TRUE]
    /\ UNCHANGED <<mempool, main_pc, vec, lst, chan, mp_filler_stop, sigint, st,
                   lastEvent, assigned, obs>>
    /\ UNCHANGED otherVars

----------------------------------------------------------------------------
(* Shutdown: main after rocket's launch() returned, and the threads it stops *)

LifeRest == UNCHANGED <<mempool, vec, chan, upd, lastEvent, assigned, obs, apiVars, evVars>>

\* SIGINT sent to the process from outside while the server runs
Signal ==
    /\ main_pc = "serving"
    /\ ~sigint
    /\ sigint' = TRUE
    /\ UNCHANGED <<main_pc, lst, mp_filler_stop, st, zmqseqlistener_stop>>
    /\ LifeRest

\* rocket's launch() on SIGINT: the server stops accepting, the streams in
\* flight are ended, .launch().await returns
RocketShutdown ==
    /\ main_pc = "serving"
    /\ sigint
    /\ main_pc' = "launch_returned"
    /\ st' = IF StreamActive THEN [st EXCEPT !.pc = "cut"] ELSE st
    /\ UNCHANGED <<lst, mp_filler_stop, sigint, zmqseqlistener_stop>>
    /\ LifeRest

\* app.zmqseqlistener_stop.store(true, Ordering::SeqCst)
MainStopListener ==
    /\ main_pc = "launch_returned"
    /\ zmqseqlistener_stop' = TRUE
    /\ main_pc' = "join_listener"
    /\ UNCHANGED <<lst, mp_filler_stop, sigint, st>>
    /\ LifeRest

\* The listener thread sees its stop flag and ends; its Sender is dropped.
ListenerExit ==
    /\ SenderAlive
    /\ zmqseqlistener_stop
    /\ lst' = "stopped"
    /\ UNCHANGED <<main_pc, mp_filler_stop, sigint, st, zmqseqlistener_stop>>
    /\ LifeRest

\* The listener thread ends on its own (an error in it) while the server
\* runs: its Sender is dropped, which is what the Err(_) arm of the mp_filler
\* loop meets.
ListenerDies ==
    /\ main_pc = "serving"
    /\ lst = "running"
    /\ ~zmqseqlistener_stop
    /\ lst' = "stopped"
    /\ UNCHANGED <<main_pc, mp_filler_stop, sigint, st, zmqseqlistener_stop>>
    /\ LifeRest

\* app.zmqseqlistener_thread.join().unwrap()
MainJoinListener ==
    /\ main_pc = "join_listener"
    /\ ~SenderAlive
    /\ main_pc' = "stop_filler"
    /\ UNCHANGED <<lst, mp_filler_stop, sigint, st, zmqseqlistener_stop>>
    /\ LifeRest

\* app.mp_filler_stop.store(true, Ordering::SeqCst)
MainStopFiller ==
    /\ main_pc = "stop_filler"
    /\ mp_filler_stop' = TRUE
    /\ main_pc' = "join_filler"
    /\ UNCHANGED <<lst, sigint, st, zmqseqlistener_stop>>
    /\ LifeRest

\* app.mp_filler_thread.join().unwrap(): Err, and a panic of main, when the
\* thread panicked; then main returns and the process ends.
MainJoinFiller ==
    /\ main_pc = "join_filler"
    /\ ~ReceiverAlive
    /\ main_pc' = IF upd.pc = "panicked" THEN "panicked" ELSE "exit"
    /\ UNCHANGED <<lst, mp_filler_stop, sigint, st, zmqseqlistener_stop>>
    /\ LifeRest

----------------------------------------------------------------------------
(* The byte streams of txsdata and txsdatafrom. A step is a read of the store
   together with the yields that follow it up to the next read: what the
   updater does between two yields that read nothing changes no chunk. *)

StreamRest ==
    /\ UNCHANGED <<mempool, main_pc, vec, lst, chan, upd, mp_filler_stop, sigint,
                   lastEvent, assigned, obs>>
    /\ UNCHANGED otherVars

\* yield size.to_be_bytes().to_vec(); yield data;    (size = data.len() as u32)
Frame(data) == <<to_be_bytes(Len(data), 4), data>>

\* Mutant of first_reset: first stays true.
first_kept == TRUE

\* first = false;
first_reset == FALSE

\* The request handler runs (first = true) and the stream is polled: the
\* iterator is created (pos_data_iterator() / pos_data_iterator_from(from)).
StreamOpen ==
    /\ main_pc = "serving"
    /\ st.pc = "none"
    /\ \E kind \in {"txsdata", "txsdatafrom"}, from \in 0..MaxFrom :
        /\ kind = "txsdata" => from = 0
        /\ st' = [st EXCEPT !.pc = "next", !.kind = kind, !.from = from]
    /\ obs' = [startM2 |-> mempool.id_tx_map, startLen |-> len(mempool),
               startCounter |-> counter(mempool), removed |-> {},
               held |-> Range(mempool.id_tx_map),
               heldAt |-> Entries(mempool.id_tx_map)]
    /\ UNCHANGED <<mempool, main_pc, vec, lst, chan, upd, mp_filler_stop, sigint,
                   lastEvent, assigned>>
    /\ UNCHANGED otherVars

\* for entry in <iterator>: the end of the stream, or the next entry;
\* let data = entry.value().clone(); then, if first { first = false;
\* yield u64::MAX.to_be_bytes().to_vec(); .. } else the frame is yielded.
StreamNext ==
    /\ st.pc = "next"
    /\ IF IterKeys(mempool.id_tx_map, st.from, st.last) = {}
       THEN st' = [st EXCEPT !.pc = "done"]
       ELSE LET k == iter_next(mempool.id_tx_map, st.from, st.last)
                data == mempool.id_tx_map[k]
            IN  IF st.first
                THEN st' = [st EXCEPT !.last = k, !.data = data, !.first = first_reset,
                                      !.keys = Append(@, k),
                                      !.body = Append(@, Magic),
                                      !.pc = IF st.kind = "txsdata" THEN "hint"
                                             ELSE "counter"]
                ELSE st' = [st EXCEPT !.last = k, !.data = data,
                                      !.keys = Append(@, k),
                                      !.body = @ \o Frame(data)]
    /\ StreamRest

\* yield mempool.len().to_be_bytes().to_vec();     (txsdata only, a u32)
StreamHint ==
    /\ st.pc = "hint"
    /\ st' = [st EXCEPT !.body = Append(@, to_be_bytes(len(mempool), 4)),
                        !.pc = "counter"]
    /\ StreamRest

\* yield mempool.counter().to_be_bytes().to_vec(); }     (a u64)
\* and the frame of the first entry
StreamCounter ==
    /\ st.pc = "counter"
    /\ st' = [st EXCEPT !.body = Append(@, to_be_bytes(counter(mempool), 8))
                                 \o Frame(st.data),
                        !.pc = "next"]
    /\ StreamRest

----------------------------------------------------------------------------
(* The store's API called from several threads at once: every statement of
   add_tx and remove_tx is a step *)

ApiRest == UNCHANGED <<progVars, lifeVars, evVars>>

ApiAddTx(th, tx_id) ==
    /\ thr[th].pc = "idle"
    /\ mempool.counter < MaxCounter
    /\ mempool' = fetch_add(mempool)
    /\ assigned' = Append(assigned, mempool.counter)
    /\ hist' = [hist EXCEPT ![th] = Append(@, mempool.counter)]
    /\ thr' = [thr EXCEPT ![th] = [pc |-> "add_m1", tx_id |-> tx_id, id |-> mempool.counter]]
    /\ ApiRest

ApiAddM1(th) ==
    /\ thr[th].pc = "add_m1"
    /\ mempool' = add_tx_m1(mempool, thr[th].tx_id, thr[th].id)
    /\ thr' = [thr EXCEPT ![th].pc = "add_m2"]
    /\ UNCHANGED <<assigned, hist>>
    /\ ApiRest

ApiAddM2(th) ==
    /\ thr[th].pc = "add_m2"
    /\ mempool' = add_tx_m2(mempool, thr[th].id, BytesOf(thr[th].tx_id))
    /\ thr' = [thr EXCEPT ![th].pc = "idle"]
    /\ UNCHANGED <<assigned, hist>>
    /\ ApiRest

ApiRemoveTx(th, tx_id) ==
    /\ thr[th].pc = "idle"
    /\ mempool' = remove_tx_m1(mempool, tx_id)
    /\ thr' = IF tx_id \in DOMAIN mempool.txid_id_map
              THEN [thr EXCEPT ![th] = [pc |-> "rem_m2", tx_id |-> tx_id,
                                        id |-> mempool.txid_id_map[tx_id]]]
              ELSE thr
    /\ UNCHANGED <<assigned, hist>>
    /\ ApiRest

ApiRemM2(th) ==
    /\ thr[th].pc = "rem_m2"
    /\ mempool' = remove_tx_m2(mempool, thr[th].id)
    /\ thr' = [thr EXCEPT ![th].pc = "idle"]
    /\ UNCHANGED <<assigned, hist>>
    /\ ApiRest

----------------------------------------------------------------------------
(* Specifications *)

Listener == ListenerStart \/ ListenerSend

Updater ==
    \/ UpdSeqStart \/ UpdSeqError \/ UpdTxAdded \/ UpdTxRemoved
    \/ UpdBlockConnection \/ UpdBlockDisconnection
    \/ UpdAddTx \/ UpdAddM1 \/ UpdAddM2 \/ UpdRemoveTx \/ UpdRemM2
    \/ UpdTimeout \/ UpdExit \/ UpdLogMempoolSize

Stream == StreamOpen \/ StreamNext \/ StreamHint \/ StreamCounter

Next == MainApp \/ LaunchFiller \/ Listener \/ Updater

\* The program without its HTTP requests: bulk load, listener and updater.
Spec == Init /\ [][Next]_vars

NextApi ==
    \E th \in Threads :
        \/ \E tx_id \in TxIds : ApiAddTx(th, tx_id)
        \/ ApiAddM1(th)
        \/ ApiAddM2(th)
        \/ \E tx_id \in TxIds : ApiRemoveTx(th, tx_id)
        \/ ApiRemM2(th)

\* The program with single-transaction events only, and a stream: for the
\* store a block event is a run of remove_tx or add_tx calls, as a run of
\* TxRemoved or TxAdded events is.
NextHttp ==
    \/ MainApp \/ LaunchFiller \/ ListenerStart \/ ListenerSendTx
    \/ UpdSeqStart \/ UpdTxAdded \/ UpdTxRemoved
    \/ UpdAddTx \/ UpdAddM1 \/ UpdAddM2 \/ UpdRemoveTx \/ UpdRemM2
    \/ Stream

SpecHttp == Init /\ [][NextHttp]_vars

\* The store alone, its API called by concurrent threads.
SpecApi == Init /\ [][NextApi]_vars

\* The program with its shutdown. The threads of the process are scheduled
\* and rocket handles the signal it got, so their steps are taken when they
\* stay possible; nothing makes the node send an event, the user send a
\* signal, an RPC fail or the listener thread end early.
Shutdown ==
    \/ RocketShutdown \/ MainStopListener \/ MainJoinListener
    \/ MainStopFiller \/ MainJoinFiller \/ ListenerExit

NextLife ==
    \/ MainApp \/ LaunchFiller \/ ListenerStart \/ ListenerSend
    \/ Updater \/ UpdDisconnected
    \/ Signal \/ ListenerDies
    \/ Shutdown

\* The program with the history of its events kept: what the listener sent,
\* what the updater received, and the store before each event.
NextEvents ==
    \/ MainAppLogged \/ LaunchFiller \/ ListenerStart \/ ListenerSendLogged
    \/ UpdSeqStart \/ UpdSeqError \/ UpdTxAdded \/ UpdTxRemoved
    \/ UpdBlockConnection \/ UpdBlockDisconnection
    \/ UpdAddTx \/ UpdAddM1 \/ UpdAddM2 \/ UpdRemoveTx \/ UpdRemM2

SpecEvents == Init /\ [][NextEvents]_vars

SpecLife ==
    /\ Init
    /\ [][NextLife]_vars
    /\ WF_vars(Shutdown)
    /\ WF_vars(UpdExit)
    /\ WF_vars(UpdAddTx \/ UpdAddM1 \/ UpdAddM2 \/ UpdRemoveTx \/ UpdRemM2)

----------------------------------------------------------------------------
(* Properties *)

M1 == mempool.txid_id_map
M2 == mempool.id_tx_map

\* No add_tx or remove_tx call of the updater is in progress.
Quiescent == upd.pc \notin {"add_m1", "add_m2", "rem_m2"}

\* The updater has finished the event it received last.
Applied == upd.pc = "run" /\ upd.job = << >>

\* C1: at every quiescent point the txid->seq map and the seq->bytes map have
\* the same number of entries, whatever add_tx and remove_tx calls were made
\* (add_tx of a txid already present included).
C1_SameSize == Quiescent => Cardinality(DOMAIN M1) = Cardinality(DOMAIN M2)

\* C2: once the updater has applied TxRemoved{t}, or a BlockConnection whose
\* block contains t, t is absent from the txid->seq map and no seq->bytes entry
\* made by an insertion of t is left for the iterators to yield.
C2_RemovedIsGone ==
    (Applied /\ lastEvent.type \in {"TxRemoved", "BlockConnection"}) =>
        \A t \in Range(lastEvent.txs) :
            /\ t \notin DOMAIN M1
            /\ \A s \in DOMAIN M2 : M2[s] # BytesOf(t)

\* C3: counter() equals the number of add_tx calls made so far (removals do
\* not change it), and no Seq was handed out twice.
C3_CounterCountsAddTx ==
    /\ counter(mempool) = Len(assigned)
    /\ \A i, j \in DOMAIN assigned : i # j => assigned[i] # assigned[j]
    /\ \A i \in DOMAIN assigned : assigned[i] < counter(mempool)

C3_Witness ==
    /\ Applied
    /\ lastEvent.type = "TxRemoved"
    /\ counter(mempool) = 3
    /\ len(mempool) = 1

\* C4: no two distinct TxIds of the txid->seq map share a Seq.
C4_Injective == \A a, b \in DOMAIN M1 : a # b => M1[a] # M1[b]

C4_Witness ==
    /\ Cardinality(DOMAIN M1) = 2
    /\ counter(mempool) = 3
    /\ Applied
    /\ lastEvent.type = "TxAdded"

\* C5: the add_tx calls of one thread receive strictly increasing Seqs, and
\* add_tx calls of different threads receive different Seqs, in every
\* interleaving of their steps.
C5_SeqsMonotonicDistinct ==
    /\ \A th \in Threads : \A i, j \in DOMAIN hist[th] :
            i < j => hist[th][i] < hist[th][j]
    /\ \A a, b \in Threads : a # b =>
            \A i \in DOMAIN hist[a], j \in DOMAIN hist[b] : hist[a][i] # hist[b][j]

C5_Witness ==
    /\ thr[1].pc = "add_m1"
    /\ thr[2].pc = "add_m1"
    /\ Len(hist[1]) = 2
    /\ thr[1].tx_id = thr[2].tx_id

\* C6: remove_tx of a txid that is not in the txid->seq map changes neither map
\* nor the counter, and remove_tx twice in a row gives the state one call gives.
C6_RemoveIdempotent ==
    Quiescent =>
        \A t \in TxIds :
            /\ t \notin DOMAIN M1 => remove_tx(mempool, t) = mempool
            /\ remove_tx(remove_tx(mempool, t), t) = remove_tx(mempool, t)

\* One add_tx was ever made, its transaction is present, and the updater has
\* applied TxRemoved of another one.
C6_Witness ==
    /\ Applied
    /\ lastEvent.type = "TxRemoved"
    /\ counter(mempool) = 1
    /\ DOMAIN M1 # {}
    /\ lastEvent.txs[1] \notin DOMAIN M1

\* The bytes of the transactions present in the txid->seq map with Seq >= s, by
\* ascending Seq.
RECURSIVE PresentFrom(_, _)
PresentFrom(mp, s) ==
    LET keys == {k \in Range(mp.txid_id_map) : k >= s}
    IN  IF keys = {} THEN << >>
        ELSE LET k == Min(keys)
                 t == CHOOSE x \in DOMAIN mp.txid_id_map : mp.txid_id_map[x] = k
             IN  <<BytesOf(t)>> \o PresentFrom(mp, k + 1)

\* C7: at a quiescent point pos_data_iterator_from(s) yields exactly the bytes
\* of the transactions present in the txid->seq map whose Seq is >= s, each
\* once, by ascending Seq; pos_data_iterator() is pos_data_iterator_from(0).
C7_IterYieldsPresent ==
    Quiescent =>
        /\ \A s \in Seqs : pos_data_iterator_from(mempool, s) = PresentFrom(mempool, s)
        /\ pos_data_iterator(mempool) = pos_data_iterator_from(mempool, 0)

\* C8: after the bulk load a transaction of smaller ancestor count has the
\* smaller Seq; the layers are dense buckets indexed by ancestor_count - 1,
\* empty ones kept, holding every fetched record once.
C8_LayersOrderSeqs ==
    main_pc = "loaded" =>
        LET vec2 == get_mempool_layers(vec)
        IN  /\ \A i, j \in DOMAIN vec :
                    vec[i].ancestor_count < vec[j].ancestor_count =>
                        /\ {vec[i].tx_id, vec[j].tx_id} \subseteq DOMAIN M1
                        /\ M1[vec[i].tx_id] < M1[vec[j].tx_id]
            /\ \A k \in DOMAIN vec2 : \A n \in DOMAIN vec2[k] :
                    vec2[k][n].ancestor_count = k
            /\ \A i \in DOMAIN vec : Len(vec2) >= vec[i].ancestor_count
            /\ vec # << >> => vec2[Len(vec2)] # << >>
            /\ Len(Flatten(vec2)) = Len(vec)
            /\ Range(Flatten(vec2)) = Range(vec)

C8_Witness ==
    /\ main_pc = "loaded"
    /\ Len(vec) = 2
    /\ vec[1].ancestor_count > vec[2].ancestor_count
    /\ M1[vec[2].tx_id] = 0

\* Parsing a response body: the header is the magic (8 bytes), for /txsdata
\* the size hint (4 bytes), and the counter (8 bytes); a frame is a 4-byte
\* length and that many bytes. Lengths of 65536 and more do not occur here.
HeaderChunks(kind) == IF kind = "txsdata" THEN 3 ELSE 2

HeaderLen(kind) == IF kind = "txsdata" THEN 20 ELSE 16

SmallLength(b) == Len(b) = 4 /\ b[1] = 0 /\ b[2] = 0

\* The complete frames at the front of b
RECURSIVE ParseFrames(_)
ParseFrames(b) ==
    IF Len(b) < 4 \/ ~SmallLength(SubSeq(b, 1, 4)) THEN << >>
    ELSE LET n == from_be_bytes(SubSeq(b, 1, 4))
         IN  IF Len(b) < 4 + n THEN << >>
             ELSE <<SubSeq(b, 5, 4 + n)>> \o ParseFrames(SubSeq(b, 5 + n, Len(b)))

\* b is a sequence of complete frames and nothing else
RECURSIVE FramesOnly(_)
FramesOnly(b) ==
    \/ b = << >>
    \/ /\ Len(b) >= 4
       /\ SmallLength(SubSeq(b, 1, 4))
       /\ LET n == from_be_bytes(SubSeq(b, 1, 4))
          IN  Len(b) >= 4 + n /\ FramesOnly(SubSeq(b, 5 + n, Len(b)))

BodyBytes == Flatten(st.body)

AfterHeader == SubSeq(BodyBytes, HeaderLen(st.kind) + 1, Len(BodyBytes))

\* The transaction byte-strings the body's frames carry
BodyFrames == Range(ParseFrames(AfterHeader))

\* C9: a /txsdata stream that ran to its end carries every transaction the
\* store held when the stream started and did not remove before it ended, and
\* carries nothing the store did not hold at some moment since the start.
C9_StreamCoversStore ==
    st.kind = "txsdata" =>
        /\ st.pc = "done" =>
              \A s \in (DOMAIN obs.startM2) \ obs.removed : obs.startM2[s] \in BodyFrames
        /\ BodyFrames \subseteq obs.held

\* The stream ended after the updater removed an entry that the store held at
\* the start and inserted one that it did not, and it carries both a
\* transaction held at the start and the inserted one.
C9_Witness ==
    /\ st.kind = "txsdata"
    /\ st.pc = "done"
    /\ obs.removed \cap DOMAIN obs.startM2 # {}
    /\ (DOMAIN obs.startM2) \ obs.removed # {}
    /\ BodyFrames \ Range(obs.startM2) # {}

\* The chunk at place i of the body is what that place must hold: the magic
\* first, then the header fields, then lengths and data in turn.
ChunkInPlace(i) ==
    LET c == st.body[i]
        n == i - HeaderChunks(st.kind)
    IN  IF i = 1 THEN c = Magic
        ELSE IF n <= 0 THEN Len(c) = (IF st.kind = "txsdata" /\ i = 2 THEN 4 ELSE 8)
        ELSE IF n % 2 = 1 THEN SmallLength(c)
        ELSE SmallLength(st.body[i - 1]) /\ Len(c) = from_be_bytes(st.body[i - 1])

\* C10: a response body is empty, or it is the header once (magic, for
\* /txsdata the size hint, the counter) followed by at least one frame: no
\* header without a frame after it, no second header, no frame before it.
C10_HeaderOnceThenFrames ==
    /\ \A i \in DOMAIN st.body : ChunkInPlace(i)
    /\ (st.pc = "done" /\ st.body # << >>) =>
          LET bytes == BodyBytes
              rest == SubSeq(bytes, HeaderLen(st.kind) + 1, Len(bytes))
              frames == ParseFrames(rest)
          IN  /\ Len(bytes) > HeaderLen(st.kind)
              /\ SubSeq(bytes, 1, 8) = Magic
              /\ FramesOnly(rest)
              /\ Len(frames) >= 1
              /\ Len(frames) * 2 + HeaderChunks(st.kind) = Len(st.body)

C10_Witness ==
    /\ st.pc = "done"
    /\ st.kind = "txsdatafrom"
    /\ Len(ParseFrames(AfterHeader)) = 2

\* C11: a /txsdatafrom/{from} stream, whatever the updater inserts and removes
\* meanwhile: its frames carry, in strictly ascending Seq order and no Seq
\* twice, the bytes stored under Seqs >= from that the seq->bytes map held at
\* some moment since the stream started; and the stream completes: it is never
\* blocked before its end, and every read moves it past the Seq it yielded.
C11_FromStreamLive ==
    st.kind = "txsdatafrom" =>
        LET frames == ParseFrames(AfterHeader)
        IN  /\ \A i \in DOMAIN st.keys :
                  /\ st.keys[i] >= st.from
                  /\ \A j \in DOMAIN st.keys : i < j => st.keys[i] < st.keys[j]
            /\ Len(frames) <= Len(st.keys)
            /\ st.pc \in {"next", "done"} => Len(frames) = Len(st.keys)
            /\ \A i \in DOMAIN frames : <<st.keys[i], frames[i]>> \in obs.heldAt
            /\ st.keys # << >> => st.last = st.keys[Len(st.keys)]
            /\ st.pc # "done" => ENABLED Stream

\* The stream of /txsdatafrom/1 ended having yielded an entry inserted after it
\* started, while an entry it would have yielded was removed.
C11_Witness ==
    /\ st.kind = "txsdatafrom"
    /\ st.from = 1
    /\ st.pc = "done"
    /\ Len(st.keys) = 2
    /\ st.keys[2] \notin DOMAIN obs.startM2
    /\ \E s \in obs.removed : s >= st.from

\* The process has ended: main returned, or panicked in a join.
ProcessEnded == main_pc \in {"exit", "panicked"}

\* C12: once the updater thread is dead of a fatal event (SeqStart{false},
\* SeqError) or of an RPC error, the whole process terminates: the HTTP server
\* does not go on serving the store with the updater dead.
C12_FatalStopsProcess ==
    (/\ upd.pc = "panicked"
     /\ \/ lastEvent.type = "SeqError"
        \/ lastEvent.type = "SeqStart" /\ ~lastEvent.ok
        \/ lastEvent.type \in {"BlockConnection", "BlockDisconnection"})
    ~> ProcessEnded

\* The updater waits in recv_timeout, nothing is buffered and nothing will be
\* sent any more, and no shutdown is under way.
Silent ==
    /\ main_pc = "serving"
    /\ ~sigint
    /\ upd.pc = "run"
    /\ upd.job = << >>
    /\ ~mp_filler_stop
    /\ chan = << >>
    /\ ~SenderAlive

\* Every thread has stopped and main has returned.
AllStopped == main_pc = "exit" /\ upd.pc = "exited" /\ lst = "stopped"

\* C13: whenever the updater gets no event for the whole wait, whatever keeps
\* the channel silent, it sets its stop flag and raises the shutdown signal,
\* applies no further event, and in the end the updater thread, the HTTP
\* server and the listener thread have all stopped.
C13_SilenceShutsDown ==
    /\ [][upd.stopping => (lastEvent' = lastEvent /\ mempool' = mempool)]_vars
    /\ [](upd.stopping => (mp_filler_stop /\ sigint))
    /\ upd.stopping ~> AllStopped
    /\ Silent ~> (upd.stopping /\ sigint)

\* The part of C13 that the Timeout arm of the loop keeps: after a timeout no
\* event is applied and every thread comes to its end.
TimeoutShutsDown ==
    /\ [][upd.stopping => (lastEvent' = lastEvent /\ mempool' = mempool)]_vars
    /\ [](upd.stopping => (mp_filler_stop /\ sigint))
    /\ upd.stopping ~> AllStopped

\* C14: the shutdown steps come in the order: HTTP server stopped, updater
\* stop flag set, updater thread joined, listener stop flag set, listener
\* thread joined; so the listener is told to stop only once the updater thread
\* has ended.
C14_ShutdownOrder ==
    /\ zmqseqlistener_stop => main_pc \notin {"loading", "loaded", "serving"}
    /\ zmqseqlistener_stop => (mp_filler_stop /\ ~ReceiverAlive)
    /\ main_pc \in {"exit", "panicked"} => (~SenderAlive /\ ~ReceiverAlive)

\* What one event does to the store when its calls run one after the other:
\* found holds the txids whose raw transaction the node returned.
RECURSIVE RemoveEach(_, _)
RemoveEach(mp, txs) ==
    IF txs = << >> THEN mp ELSE RemoveEach(remove_tx(mp, Head(txs)), Tail(txs))

RECURSIVE AddEachFound(_, _, _)
AddEachFound(mp, txs, found) ==
    IF txs = << >> THEN mp
    ELSE AddEachFound(IF Head(txs) \in found
                      THEN add_tx(mp, Head(txs), BytesOf(Head(txs))) ELSE mp,
                      Tail(txs), found)

ApplyEvent(mp, r) ==
    IF r.fatal THEN mp
    ELSE IF r.e.type \in {"TxRemoved", "BlockConnection"} THEN RemoveEach(mp, r.e.txs)
    ELSE IF r.e.type \in {"TxAdded", "BlockDisconnection"}
         THEN AddEachFound(mp, r.e.txs, r.found)
    ELSE mp

RECURSIVE ApplyAll(_, _)
ApplyAll(mp, rs) ==
    IF rs = << >> THEN mp ELSE ApplyAll(ApplyEvent(mp, Head(rs)), Tail(rs))

\* The updater is between two events (or dead of the last one).
BetweenEvents == upd.job = << >> /\ upd.pc \in {"run", "panicked"}

\* The events buffered in the channel, the SeqStart aside
RECURSIVE Buffered(_)
Buffered(c) ==
    IF c = << >> THEN << >>
    ELSE (IF Head(c).type = "SeqStart" THEN << >> ELSE <<Head(c)>>) \o Buffered(Tail(c))

\* C15: between events the store is the bulk-loaded store with a prefix of the
\* events the listener sent applied to it one by one in the order sent: no
\* event is received before the load has finished, none is skipped, none
\* overtakes another.
C15_FifoPrefix ==
    /\ main_pc \in {"loading", "loaded"} => (lastEvent = NoEvent /\ recv = << >>)
    /\ main_pc = "loading" => mempool = new
    /\ Len(recv) <= Len(sent)
    /\ \A i \in DOMAIN recv : recv[i].e = sent[i]
    /\ Buffered(chan) = SubSeq(sent, Len(recv) + 1, Len(sent))
    /\ (main_pc # "loading" /\ BetweenEvents) => mempool = ApplyAll(loaded, recv)

\* TxAdded{1}, TxAdded{2}, TxRemoved{1} applied to an empty store
C15_Witness ==
    /\ loaded = new
    /\ Len(recv) = 3
    /\ recv[1].e = Event("TxAdded", <<1>>, TRUE) /\ recv[1].found = {1}
    /\ recv[2].e = Event("TxAdded", <<2>>, TRUE) /\ recv[2].found = {2}
    /\ recv[3].e = Event("TxRemoved", <<1>>, TRUE)
    /\ Applied
    /\ len(mempool) = 1
    /\ counter(mempool) = 2
    /\ DOMAIN M1 = {2}
    /\ pos_data_iterator_from(mempool, 0) = <<BytesOf(2)>>

\* The logged event the updater received last
LastRecv == recv[Len(recv)]

\* The store kept, from the store p it was before the event, everything of the
\* transactions outside T: their Seqs, and the bytes under those Seqs.
OthersKept(p, T) ==
    /\ \A t \in TxIds \ T :
          /\ t \in DOMAIN M1 <=> t \in DOMAIN p.txid_id_map
          /\ t \in DOMAIN M1 =>
                /\ M1[t] = p.txid_id_map[t]
                /\ M1[t] \in DOMAIN M2 <=> M1[t] \in DOMAIN p.id_tx_map
                /\ M1[t] \in DOMAIN M2 => M2[M1[t]] = p.id_tx_map[M1[t]]

\* C16: BlockConnection removes from the store the present transactions of the
\* block, and only them: the others keep their Seq and bytes, txids of the
\* block that are not in the store change nothing, the counter stays; and a
\* failed get_block_info leaves the store as it was.
C16_BlockConnectionRemoves ==
    (recv # << >> /\ LastRecv.e.type = "BlockConnection") =>
        LET B == Range(LastRecv.e.txs)
            gone == {pre.txid_id_map[t] : t \in B \cap DOMAIN pre.txid_id_map}
        IN  /\ counter(mempool) = counter(pre)
            /\ OthersKept(pre, B)
            /\ LastRecv.fatal => mempool = pre
            /\ (Applied /\ ~LastRecv.fatal) =>
                  /\ DOMAIN M1 = (DOMAIN pre.txid_id_map) \ B
                  /\ DOMAIN M2 = (DOMAIN pre.id_tx_map) \ gone
                  /\ \A q \in DOMAIN M2 : M2[q] = pre.id_tx_map[q]

\* A block of two transactions, one of them in the store and one not, was
\* connected.
C16_Witness ==
    /\ recv # << >>
    /\ LastRecv.e.type = "BlockConnection"
    /\ ~LastRecv.fatal
    /\ Applied
    /\ Len(LastRecv.e.txs) = 2
    /\ LastRecv.e.txs[2] \in DOMAIN pre.txid_id_map
    /\ LastRecv.e.txs[1] \notin DOMAIN pre.txid_id_map
    /\ counter(mempool) = 2

\* The transactions of txs that were found, in the order of txs
RECURSIVE FoundIn(_, _)
FoundIn(txs, found) ==
    IF txs = << >> THEN << >>
    ELSE (IF Head(txs) \in found THEN <<Head(txs)>> ELSE << >>) \o FoundIn(Tail(txs), found)

\* C17: BlockDisconnection inserts the fetchable transactions of the block in
\* the order of its list, each under the next fresh Seq (so an earlier one of
\* the list has the smaller Seq); a transaction not found is skipped and takes
\* no Seq.
C17_BlockDisconnectionInserts ==
    (recv # << >> /\ LastRecv.e.type = "BlockDisconnection") =>
        LET f == FoundIn(LastRecv.e.txs, LastRecv.found)
        IN  /\ LastRecv.fatal => mempool = pre
            /\ OthersKept(pre, Range(f))
            /\ (Applied /\ ~LastRecv.fatal) =>
                  /\ counter(mempool) = counter(pre) + Len(f)
                  /\ \A i \in DOMAIN f :
                        /\ f[i] \in DOMAIN M1
                        /\ M1[f[i]] = counter(pre) + i - 1
                        /\ M1[f[i]] \notin DOMAIN pre.id_tx_map
                        /\ M1[f[i]] \in DOMAIN M2
                        /\ M2[M1[f[i]]] = BytesOf(f[i])
                  /\ \A i, j \in DOMAIN f : i < j => M1[f[i]] < M1[f[j]]
                  /\ DOMAIN M2 = (DOMAIN pre.id_tx_map) \cup {M1[f[i]] : i \in DOMAIN f}
                  /\ len(mempool) = Cardinality((DOMAIN pre.txid_id_map) \cup Range(f))

\* The block 2, 1 was disconnected on an empty store, both fetched.
C17_Witness ==
    /\ recv # << >>
    /\ LastRecv.e = Event("BlockDisconnection", <<2, 1>>, TRUE)
    /\ LastRecv.found = {1, 2}
    /\ ~LastRecv.fatal
    /\ pre = new
    /\ Applied
    /\ len(mempool) = 2
    /\ counter(mempool) = 2
    /\ M1[2] < M1[1]

AllReturned == \A th \in Threads : thr[th].pc = "idle"

\* C19: whatever add_tx and remove_tx calls ran concurrently on whatever
\* txids, once all of them have returned the Seqs the txid->seq map points to
\* are exactly the keys of the seq->bytes map.
C19_NoPartialEntry == AllReturned => Range(M1) = DOMAIN M2

\* C20: the size hint and the counter of a /txsdata header, and the counter of
\* a /txsdatafrom header, are len() and counter() of the store as they were
\* when the stream started, whatever the updater did before the first frame.
C20_HeaderSampledAtStart ==
    /\ (st.kind = "txsdata" /\ Len(st.body) >= 2) =>
            from_be_bytes(st.body[2]) = obs.startLen
    /\ (st.kind = "txsdata" /\ Len(st.body) >= 3) =>
            from_be_bytes(st.body[3]) = obs.startCounter
    /\ (st.kind = "txsdatafrom" /\ Len(st.body) >= 2) =>
            from_be_bytes(st.body[2]) = obs.startCounter

\* The counter of the header of a /txsdata body: its third chunk.
HeaderCounter == from_be_bytes(st.body[3])

\* The Seqs of the entries a stream yielded as frames
Delivered == Range(st.keys)

\* C21: the counter C in the header of a /txsdata stream that ran to its end
\* is a safe resume point: every entry of the seq->bytes map with Seq < C,
\* then and at any later moment, was delivered as a frame of that stream,
\* whatever add_tx ran while the stream did.
C21_CounterIsResumePoint ==
    (st.kind = "txsdata" /\ st.pc = "done" /\ Len(st.body) >= 3) =>
        \A s \in DOMAIN mempool.id_tx_map :
            s < HeaderCounter => s \in Delivered

\* An entry below the header's counter that a completed /txsdata stream did
\* not deliver can only be the one of the add_tx that was between its
\* fetch_add and its seq->bytes insert when the counter was read: the single
\* writer has one such call at a time, so it is the Seq just below the counter.
OnlyPendingMissed ==
    (st.kind = "txsdata" /\ st.pc = "done" /\ Len(st.body) >= 3) =>
        \A s \in DOMAIN mempool.id_tx_map :
            (s < HeaderCounter /\ s \notin Delivered) => s = HeaderCounter - 1

====
